---- MODULE Spec2Model ----
(***************************************************************************)
(* Model of the Northwind ETL pipeline: class NorthwindETL and the driver  *)
(* main() of src/pipeline_airflow.py, and the three task callables and the *)
(* task dependency of src/pipeline_etl_dag.py.                             *)
(*                                                                         *)
(* The database and the file store are the state.  A table name is a pair  *)
(* <<base, k>> standing for the string base + k * "_final" (no base name   *)
(* ends in "_final", so the encoding is injective).  The contents of a     *)
(* table, a snapshot file or the flat file is a pair <<origin, version>>:  *)
(* where the rows came from and which edition of them it is (the number of *)
(* the source change that wrote them; 0 for the first).  to_parquet /      *)
(* read_parquet / to_sql(index=False) carry rows and columns over          *)
(* unchanged, so a copy carries the pair over.                             *)
(*                                                                         *)
(* A DAG run is one attempt of each task: a retry runs the same callable   *)
(* again, which a further run of the model does as well.                   *)
(*                                                                         *)
(* Every library call that can raise (create_engine, read_sql, to_parquet, *)
(* read_csv, to_sql, conn.execute, to_csv) may fail nondeterministically.  *)
(* Database rules that the source does not state (a view is listed by the  *)
(* catalog, a table a view depends on cannot be dropped) are covered only  *)
(* by that nondeterministic failure.                                       *)
(***************************************************************************)
EXTENDS Integers, Sequences, FiniteSets, TLC

MaxDate == 2
MaxRuns == 2
MaxChanges == 1

BaseTables == {"orders", "order_details"}
Dates == 1..MaxDate

Steps == {"extract", "load", "all"}
Modes == Steps \cup {"dag"}

VARIABLES
    db,              \* tables of the public schema: name -> contents
    view,            \* TRUE iff the view orders_complete exists
    csv_path,        \* the flat file: its contents, or NoFile
    pgFiles,         \* data/postgres/<t>/<date>/<t>.parquet: <<t, date>> -> contents
    csvFiles,        \* data/csv/<date>/order_details.parquet: date -> contents
    results,         \* dates with results/orders_complete_<date>.csv/.json
    pc,              \* position of the driver / of the DAG run
    step,            \* args.step, or "dag" for a scheduler run
    execution_date,  \* self.execution_date
    runs,            \* number of runs started
    lastDate,        \* the latest logical date any run was given
    changes,         \* number of changes of the sources so far
    called,          \* operations invoked in the current run
    ret,             \* their latest return values
    extStage,        \* how far the last extract_from_postgres got
    extracted,       \* the tables it wrote a snapshot of, up to the failure
    loadStage,       \* how far the last load_to_postgres got
    loaded,          \* names passed to to_sql by the last load_to_postgres
    csvFailed        \* dates whose latest extract_from_csv returned False

vars == <<db, view, csv_path, pgFiles, csvFiles, results, pc, step, execution_date,
          runs, lastDate, changes, called, ret, extStage, extracted, loadStage, loaded, csvFailed>>

store == <<db, view, csv_path, pgFiles, csvFiles, results>>

----------------------------------------------------------------------------
(* Helpers *)

\* f"{table_name}_final"
FinalName(t) == <<t[1], t[2] + 1>>

NoFile == <<"csv", -1>>

\* 'order_details_final'
CsvTarget == <<"order_details", 1>>

\* orders_final, the other table the view joins
OrdersFinal == <<"orders", 1>>

\* list(Path("data/postgres").glob(f"*/{date}/*.parquet"))
postgres_files(d) == {k \in DOMAIN pgFiles : k[2] = d}

\* list(Path(f"data/csv/{date}").glob("*.parquet"))
csv_files(d) == {k \in DOMAIN csvFiles : k = d}

\* variant: discovery leaves out the tables the pipeline wrote
get_all_tables_filtered == {t \in DOMAIN db : t[2] = 0}

\* tables['table_name'].tolist(): every table of the schema, unfiltered
get_all_tables == DOMAIN db

check_extract_success(d) ==
    Cardinality(postgres_files(d)) > 0 /\ Cardinality(csv_files(d)) > 0

\* the tables whose dated snapshot file exists (file_path.exists())
SnapshotTables(d) == {k[1] : k \in postgres_files(d)}

\* df = pd.read_sql(...); df.to_parquet(output_file) for the tables W
WriteSnapshots(W, d) ==
    [k \in DOMAIN pgFiles \cup {<<t, d>> : t \in W} |->
        IF k[2] = d /\ k[1] \in W THEN db[k[1]] ELSE pgFiles[k]]

\* variant: an existing target table is kept, not replaced
LoadTables_keep(d0, W, d) ==
    [n \in DOMAIN d0 \cup {FinalName(t) : t \in W} |->
        IF n \in DOMAIN d0 THEN d0[n]
        ELSE pgFiles[<<CHOOSE t \in W : FinalName(t) = n, d>>]]

\* df.to_sql(f"{table_name}_final", engine, if_exists='replace') for the tables W
LoadTables(d0, W, d) ==
    [n \in DOMAIN d0 \cup {FinalName(t) : t \in W} |->
        IF \E t \in W : FinalName(t) = n
        THEN pgFiles[<<CHOOSE t \in W : FinalName(t) = n, d>>]
        ELSE d0[n]]

\* variant: the flat-file snapshot goes to a target table of its own name
LoadCsv_own(d0, d) ==
    IF d \in DOMAIN csvFiles
    THEN [n \in DOMAIN d0 \cup {<<"csv", 1>>} |-> IF n = <<"csv", 1>> THEN csvFiles[d] ELSE d0[n]]
    ELSE d0

\* if csv_file.exists(): df.to_sql('order_details_final', engine, if_exists='replace')
LoadCsv(d0, d) ==
    IF d \in DOMAIN csvFiles
    THEN [n \in DOMAIN d0 \cup {CsvTarget} |-> IF n = CsvTarget THEN csvFiles[d] ELSE d0[n]]
    ELSE d0

\* CREATE OR REPLACE VIEW needs both joined tables
ViewCreatable(d0) == OrdersFinal \in DOMAIN d0 /\ CsvTarget \in DOMAIN d0

----------------------------------------------------------------------------
(* Driver and scheduler control flow *)

\* main: which operation the run starts with; a DAG run starts with its
\* two extraction tasks
FirstPc(m) == IF m \in {"extract", "all", "dag"} THEN "extract_pg" ELSE "load"

\* variant: the driver goes on when either extraction succeeded
AfterExtract_either(m, pg, csv) ==
    IF ~(pg \/ csv) THEN "done"
    ELSE IF m \in {"load", "all"} THEN "load" ELSE "done"

\* main, after both extractions: return unless both succeeded, then load
\* in the steps 'load' and 'all'
AfterExtract(m, pg, csv) ==
    IF ~(pg /\ csv) THEN "done"
    ELSE IF m \in {"load", "all"} THEN "load" ELSE "done"

\* [extract_postgres_task, extract_csv_task] >> load_task: each extraction
\* task raises on False, and load_task runs only after both succeeded
AfterTasks(pg, csv) == IF pg /\ csv THEN "load" ELSE "raised"

AfterCsv(m, pg, csv) ==
    IF m = "dag" THEN AfterTasks(pg, csv) ELSE AfterExtract(m, pg, csv)

\* variant: the task forgets to raise on False
AfterLoad_noraise(m, ok) ==
    IF ok \/ m = "dag" THEN "export" ELSE "done"

\* main: if etl.load_to_postgres(): etl.export_results()
\* load_data: if not etl.load_to_postgres(): raise ...; etl.export_results()
AfterLoad(m, ok) ==
    IF ok THEN "export"
    ELSE IF m = "dag" THEN "raised" ELSE "done"

\* export_results catches nothing: its failure ends main, or fails the task
AfterExport(m, ok) == IF ok THEN "done" ELSE "raised"

\* variant: the verification is not consulted
LoadStages_unchecked(d) == {"tables", "csv", "view", "ok"}

\* load_to_postgres: the stages it can end in.  Without the snapshots it
\* returns at once; with them an exception may end it at any later stage
LoadStages(d) ==
    IF ~check_extract_success(d) THEN {"precheck"} ELSE {"tables", "csv", "view", "ok"}

\* variant: a failure at a table is not reported
ExtractResult_lenient(stage) == stage \in {"ok", "table"}

\* the value extract_from_postgres returns when it got as far as stage
ExtractResult(stage) == stage = "ok"

\* variant: a failure of create_combined_view still reports success
LoadResult_viewignored(stage) == stage \in {"ok", "view"}

\* the value load_to_postgres returns when it got as far as stage
LoadResult(stage) == stage = "ok"

Init ==
    /\ db = [n \in {<<"orders", 0>>} |-> <<"orders", 0>>]
    /\ view = FALSE
    /\ csv_path = <<"csv", 0>>
    /\ pgFiles = <<>>
    /\ csvFiles = <<>>
    /\ results = {}
    /\ pc = "idle"
    /\ step = "all"
    /\ execution_date = 1
    /\ runs = 0
    /\ lastDate = 0
    /\ changes = 0
    /\ called = {}
    /\ ret = [pg |-> FALSE, csv |-> FALSE, load |-> FALSE]
    /\ extStage = "none"
    /\ extracted = {}
    /\ loadStage = "none"
    /\ loaded = {}
    /\ csvFailed = {}

Idle == pc = "idle"

Ended == pc \in {"done", "raised"}

\* NorthwindETL(...) and the start of main(), or of a DAG run.  Logical
\* dates are interchangeable, so a run is given a date already used or the
\* next unused one.
StartWithin(m, d, limit) ==
    /\ Idle
    /\ runs < limit
    /\ d <= lastDate + 1
    /\ lastDate' = (IF d > lastDate THEN d ELSE lastDate)
    /\ step' = m
    /\ execution_date' = d
    /\ runs' = runs + 1
    /\ called' = {}
    /\ ret' = [pg |-> FALSE, csv |-> FALSE, load |-> FALSE]
    /\ extStage' = "none"
    /\ extracted' = {}
    /\ loadStage' = "none"
    /\ loaded' = {}
    /\ pc' = FirstPc(m)
    /\ UNCHANGED <<store, changes, csvFailed>>

Start(m, d) == StartWithin(m, d, MaxRuns)

\* extract_from_postgres.  stage: "discover" an exception before the list
\* of tables is there; "table" an exception at one table, after the tables W
\* that come before it in the list were written; "ok" no exception.  The
\* catalog returns the tables in any order, so W is any set of them.
ExtractOutcome(stage, W) ==
    LET ok == ExtractResult(stage)
    IN  /\ stage = "discover" => W = {}
        /\ stage = "table" => W # get_all_tables
        /\ stage = "ok" => W = get_all_tables
        /\ extStage' = stage
        /\ extracted' = W
        /\ pgFiles' = WriteSnapshots(W, execution_date)
        /\ ret' = [ret EXCEPT !.pg = ok]
        /\ pc' = "extract_csv"

ExtractFromPostgres ==
    /\ pc = "extract_pg"
    /\ called' = called \cup {"extract_from_postgres"}
    /\ \E stage \in {"discover", "table", "ok"} : \E W \in SUBSET get_all_tables :
           ExtractOutcome(stage, W)
    /\ UNCHANGED <<db, view, csv_path, csvFiles, results, step, execution_date, runs, lastDate, changes,
                   loadStage, loaded, csvFailed>>

\* extract_from_csv: read_csv raises on a missing file; read may be TRUE
\* only when the file is there
ExtractCsvOutcome(read) ==
    /\ csvFiles' = (IF read
                    THEN [d \in DOMAIN csvFiles \cup {execution_date} |->
                            IF d = execution_date THEN csv_path ELSE csvFiles[d]]
                    ELSE csvFiles)
    /\ ret' = [ret EXCEPT !.csv = read]
    /\ csvFailed' = (IF read THEN csvFailed \ {execution_date}
                     ELSE csvFailed \cup {execution_date})
    /\ pc' = AfterCsv(step, ret.pg, read)

ExtractFromCsv ==
    /\ pc = "extract_csv"
    /\ called' = called \cup {"extract_from_csv"}
    /\ \E read \in BOOLEAN : (read => csv_path # NoFile) /\ ExtractCsvOutcome(read)
    /\ UNCHANGED <<db, view, csv_path, pgFiles, results, step, execution_date, runs, lastDate, changes,
                   extStage, extracted, loadStage, loaded>>

\* load_to_postgres.  stage: "precheck" the verification failed; "tables" an
\* exception in the loop after the tables W were written; "csv" an exception
\* at the flat-file load; "view" an exception in create_combined_view, which
\* there is whenever a table the view joins is missing; "ok" no exception
LoadOutcome(stage, W) ==
    LET d  == execution_date
        S  == SnapshotTables(d)
        d1 == LoadTables(db, W, d)
        d2 == IF stage \in {"view", "ok"} THEN LoadCsv(d1, d) ELSE d1
        ok == LoadResult(stage)
    IN  /\ stage = "precheck" => W = {}
        /\ stage = "tables" => W # S
        /\ stage \in {"csv", "view", "ok"} => W = S
        /\ stage = "ok" => ViewCreatable(d2)
        /\ db' = d2
        /\ view' = (view \/ stage = "ok")
        /\ loadStage' = stage
        /\ loaded' = {FinalName(t) : t \in W} \cup
                         (IF stage \in {"view", "ok"} /\ d \in DOMAIN csvFiles
                          THEN {CsvTarget} ELSE {})
        /\ ret' = [ret EXCEPT !.load = ok]
        /\ pc' = AfterLoad(step, ok)

LoadToPostgres ==
    /\ pc = "load"
    /\ called' = called \cup {"load_to_postgres"}
    /\ \E stage \in LoadStages(execution_date) :
       \E W \in SUBSET SnapshotTables(execution_date) :
           LoadOutcome(stage, W)
    /\ UNCHANGED <<csv_path, pgFiles, csvFiles, results, step, execution_date, runs, lastDate, changes,
                   extStage, extracted, csvFailed>>

\* export_results: read the view, write the two files
ExportResults ==
    /\ pc = "export"
    /\ called' = called \cup {"export_results"}
    /\ \E ok \in BOOLEAN :
           /\ results' = (IF ok THEN results \cup {execution_date} ELSE results)
           /\ pc' = AfterExport(step, ok)
    /\ UNCHANGED <<db, view, csv_path, pgFiles, csvFiles, step, execution_date, runs, lastDate, changes,
                   ret, extStage, extracted, loadStage, loaded, csvFailed>>

\* the process exits: main returned ("done") or an exception left it
\* ("raised"); for a DAG run, the run succeeded or failed
Finish ==
    /\ Ended
    /\ pc' = "idle"
    /\ called' = {}
    /\ ret' = [pg |-> FALSE, csv |-> FALSE, load |-> FALSE]
    /\ extStage' = "none"
    /\ extracted' = {}
    /\ loadStage' = "none"
    /\ loaded' = {}
    /\ step' = "all"
    /\ execution_date' = 1
    /\ UNCHANGED <<store, runs, lastDate, changes, csvFailed>>

\* between runs the source changes: a table of the source database is
\* created or rewritten (its rows are a new edition) ...
SourceWrite(b) ==
    /\ Idle
    /\ runs < MaxRuns
    /\ changes < MaxChanges
    /\ changes' = changes + 1
    /\ db' = [n \in DOMAIN db \cup {<<b, 0>>} |->
                IF n = <<b, 0>> THEN <<b, changes + 1>> ELSE db[n]]
    /\ UNCHANGED <<view, csv_path, pgFiles, csvFiles, results, pc, step, execution_date,
                   runs, lastDate, called, ret, extStage, extracted, loadStage, loaded,
                   csvFailed>>

\* ... or dropped ...
SourceDrop(b) ==
    /\ Idle
    /\ runs < MaxRuns
    /\ changes < MaxChanges
    /\ <<b, 0>> \in DOMAIN db
    /\ changes' = changes + 1
    /\ db' = [n \in DOMAIN db \ {<<b, 0>>} |-> db[n]]
    /\ UNCHANGED <<view, csv_path, pgFiles, csvFiles, results, pc, step, execution_date,
                   runs, lastDate, called, ret, extStage, extracted, loadStage, loaded,
                   csvFailed>>

\* ... or the flat file is rewritten or removed
SourceFile(present) ==
    /\ Idle
    /\ runs < MaxRuns
    /\ changes < MaxChanges
    /\ ~present => csv_path # NoFile
    /\ changes' = changes + 1
    /\ csv_path' = (IF present THEN <<"csv", changes + 1>> ELSE NoFile)
    /\ UNCHANGED <<db, view, pgFiles, csvFiles, results, pc, step, execution_date,
                   runs, lastDate, called, ret, extStage, extracted, loadStage, loaded,
                   csvFailed>>

Next ==
    \/ \E m \in Modes, d \in Dates : Start(m, d)
    \/ ExtractFromPostgres
    \/ ExtractFromCsv
    \/ LoadToPostgres
    \/ ExportResults
    \/ Finish
    \/ \E b \in BaseTables : SourceWrite(b)
    \/ \E b \in BaseTables : SourceDrop(b)
    \/ \E present \in BOOLEAN : SourceFile(present)

Spec == Init /\ [][Next]_vars

\* the driver restricted to the steps 'extract' and 'load', one run more
MaxStepRuns == 3

StartStep(m, d) == StartWithin(m, d, MaxStepRuns)

NextSteps ==
    \/ \E m \in {"extract", "load"}, d \in Dates : StartStep(m, d)
    \/ ExtractFromPostgres
    \/ ExtractFromCsv
    \/ LoadToPostgres
    \/ ExportResults
    \/ Finish
    \/ \E b \in BaseTables : SourceWrite(b)
    \/ \E b \in BaseTables : SourceDrop(b)
    \/ \E present \in BOOLEAN : SourceFile(present)

SpecSteps == Init /\ [][NextSteps]_vars

----------------------------------------------------------------------------
(* Properties *)

TypeOK ==
    /\ pc \in {"idle", "extract_pg", "extract_csv", "load", "export", "done", "raised"}
    /\ step \in Modes
    /\ execution_date \in Dates
    /\ runs \in 0..MaxStepRuns
    /\ called \subseteq {"extract_from_postgres", "extract_from_csv",
                         "load_to_postgres", "export_results"}
    /\ loaded \subseteq DOMAIN db
    /\ csvFailed \subseteq Dates
    /\ results \subseteq Dates

Driver == step \in Steps

\* the snapshot a target table is loaded from: the flat-file snapshot for
\* order_details_final, else the snapshot of the table it is named after
HasSource(n, d) ==
    IF n = CsvTarget THEN d \in DOMAIN csvFiles
    ELSE <<<<n[1], n[2] - 1>>, d>> \in DOMAIN pgFiles

SourceOf(n, d) ==
    IF n = CsvTarget THEN csvFiles[d] ELSE pgFiles[<<<<n[1], n[2] - 1>>, d>>]

Targets == {n \in DOMAIN db : n[2] >= 1}

\* C1: whenever check_extract_success is false for the logical date,
\* load_to_postgres returns False, writes no table and does not get to the
\* view: the database is as it was before the call.
C1_ReloadNoOp ==
    [][(pc = "load" /\ ~check_extract_success(execution_date)) =>
          /\ ~ret'.load
          /\ db' = db
          /\ view' = view
          /\ loaded' = {}
          /\ loadStage' = "precheck"
          /\ pc' # "export"]_vars

C1_Witness ==
    /\ "load_to_postgres" \in called
    /\ loadStage = "precheck"
    /\ ~check_extract_success(execution_date)
    /\ DOMAIN csvFiles # {}

\* C2: in every driver run, the steps 'extract' and 'all' invoke both
\* extractions, the relational one first and the flat-file one whatever the
\* relational one returned; 'all' invokes the reload only if both extractions
\* of the run returned True; 'extract' invokes neither reload nor export.
C2_DriverGating ==
    Driver =>
        /\ "extract_from_csv" \in called => "extract_from_postgres" \in called
        /\ (step \in {"extract", "all"} /\ pc \notin {"idle", "extract_pg"})
               => "extract_from_postgres" \in called
        /\ (step \in {"extract", "all"} /\ pc \notin {"idle", "extract_pg", "extract_csv"})
               => "extract_from_csv" \in called
        /\ (step = "all" /\ (pc = "load" \/ "load_to_postgres" \in called))
               => (ret.pg /\ ret.csv)
        /\ step = "extract"
               => (pc \notin {"load", "export"} /\
                   called \subseteq {"extract_from_postgres", "extract_from_csv"})

C2_Witness ==
    /\ step = "all"
    /\ pc = "done"
    /\ ~ret.pg
    /\ ret.csv
    /\ called = {"extract_from_postgres", "extract_from_csv"}

\* C3: export_results is invoked only after load_to_postgres returned True
\* in the same run, in the driver and in the task load_data alike: a reload
\* that returned False is never followed by an export.
C3_ExportAfterLoad ==
    /\ (pc = "export" \/ "export_results" \in called)
           => ("load_to_postgres" \in called /\ ret.load)
    /\ ("load_to_postgres" \in called /\ ~ret.load)
           => (pc \in {"done", "raised"} /\ "export_results" \notin called)

C3_Witness ==
    /\ step = "dag"
    /\ pc = "raised"
    /\ "load_to_postgres" \in called
    /\ ~ret.load
    /\ "export_results" \notin called

\* C4 as stated: a failure inside create_combined_view during the reload
\* leaves the reload as an exception and ends the driver run with it.
C4_ViewFailurePropagates ==
    (Driver /\ loadStage = "view") => pc = "raised"

\* C4, amended: a failure inside create_combined_view during the reload is
\* caught by the reload's own handler: load_to_postgres returns False, the
\* target tables it wrote stay written, export_results is not invoked, and
\* the driver run ends normally (the task load_data raises its own exception
\* on the False).
C4_ViewFailureCaught ==
    loadStage = "view" =>
        /\ ~ret.load
        /\ "export_results" \notin called
        /\ loaded \subseteq DOMAIN db
        /\ \A n \in loaded : HasSource(n, execution_date) /\ db[n] = SourceOf(n, execution_date)
        /\ pc = (IF Driver THEN "done" ELSE "raised")

C4_Witness ==
    /\ loadStage = "view"
    /\ step = "load"
    /\ pc = "done"
    /\ ~ViewCreatable(db)
    /\ CsvTarget \in loaded

\* C5: for every logical date and every source database, one with no table
\* included, if extract_from_postgres and extract_from_csv both returned
\* True then a snapshot file of each kind exists for the date, so that
\* check_extract_success returns True.
C5_SuccessImpliesVerified ==
    ({"extract_from_postgres", "extract_from_csv"} \subseteq called /\ ret.pg /\ ret.csv)
        => check_extract_success(execution_date)

\* C6: if the flat-file extraction of an 'extract' run for a date failed,
\* the relational snapshots of the run are written, the run ends without a
\* load, and a later 'load' run for that date refuses: load_to_postgres
\* returns False at the verification, whatever runs came before.
C6_LoadRefusesAfterCsvFailure ==
    /\ (step = "extract" /\ "extract_from_csv" \in called /\ ~ret.csv) =>
           /\ pc = "done"
           /\ \A t \in extracted : <<t, execution_date>> \in DOMAIN pgFiles
    /\ (step = "load" /\ "load_to_postgres" \in called /\ execution_date \in csvFailed) =>
           (loadStage = "precheck" /\ ~ret.load)

\* C7 as stated: a successful reload with N relational snapshots for the
\* date writes N + 1 distinct target tables, each holding the contents of its
\* own snapshot, whatever the table names are.
C7_DistinctTargets ==
    ret.load =>
        LET S == SnapshotTables(execution_date)
        IN  /\ Cardinality(loaded) = Cardinality(S) + 1
            /\ \A t \in S : /\ <<t[1], t[2] + 1>> \in DOMAIN db
                            /\ db[<<t[1], t[2] + 1>>] = pgFiles[<<t, execution_date>>]
            /\ db[CsvTarget] = csvFiles[execution_date]

\* C7, amended: a successful reload with N relational snapshots for the date
\* writes the target table '<table>_final' of each and 'order_details_final';
\* these are N + 1 distinct tables unless a snapshot table is named
\* 'order_details', and then N.  'order_details_final' holds the flat-file
\* snapshot, every other target the snapshot of its own table.
C7_Targets ==
    ret.load =>
        LET S == SnapshotTables(execution_date)
        IN  /\ loaded = {<<t[1], t[2] + 1>> : t \in S} \cup {CsvTarget}
            /\ Cardinality(loaded) =
                   Cardinality(S) + (IF <<"order_details", 0>> \in S THEN 0 ELSE 1)
            /\ loaded \subseteq DOMAIN db
            /\ \A t \in S : <<t[1], t[2] + 1>> # CsvTarget =>
                   db[<<t[1], t[2] + 1>>] = pgFiles[<<t, execution_date>>]
            /\ db[CsvTarget] = csvFiles[execution_date]

C7_Witness ==
    /\ ret.load
    /\ <<"order_details", 0>> \in SnapshotTables(execution_date)
    /\ <<"orders", 0>> \in SnapshotTables(execution_date)
    /\ db[CsvTarget] # pgFiles[<<<<"order_details", 0>>, execution_date>>]

\* C8 as stated: after a successful reload for a date every target table of
\* the database holds the contents of that date's snapshot.
C8_AllTargetsReplaced ==
    ret.load =>
        \A n \in Targets :
            HasSource(n, execution_date) /\ db[n] = SourceOf(n, execution_date)

\* C8, amended: after a successful reload for a date every target table
\* whose source has a snapshot for that date holds the contents of that
\* snapshot; a target table whose source has none is not written by the
\* reload and keeps what it held.
C8_TargetsWithSnapshotReplaced ==
    [][(pc = "load" /\ ret'.load) =>
          \A n \in {m \in DOMAIN db' : m[2] >= 1} :
              IF HasSource(n, execution_date)
              THEN n \in loaded' /\ db'[n] = SourceOf(n, execution_date)
              ELSE n \notin loaded' /\ n \in DOMAIN db /\ db'[n] = db[n]]_vars

C8_Witness ==
    /\ ret.load
    /\ execution_date = 2
    /\ \E n \in Targets :
           /\ ~HasSource(n, 2)
           /\ HasSource(n, 1)
           /\ db[n] = SourceOf(n, 1)
    /\ \E n \in Targets : HasSource(n, 2) /\ n \in loaded

\* C9: extract_from_postgres always returns: with an exception at discovery
\* or at a table it returns False, the snapshots of the tables before the
\* failing one are written with their contents, and nothing else of the
\* file store or the database is touched (no rollback, no later table).
C9_ExtractCatches ==
    [][pc = "extract_pg" =>
          LET d == execution_date
          IN  /\ pc' = "extract_csv"
              /\ "extract_from_postgres" \in called'
              /\ extStage' \in {"discover", "table"} => ~ret'.pg
              /\ extStage' = "discover" => extracted' = {}
              /\ extStage' = "table" => \E t \in DOMAIN db : t \notin extracted'
              /\ \A t \in extracted' :
                     <<t, d>> \in DOMAIN pgFiles' /\ pgFiles'[<<t, d>>] = db[t]
              /\ \A k \in DOMAIN pgFiles' :
                     (k[2] # d \/ k[1] \notin extracted') =>
                         (k \in DOMAIN pgFiles /\ pgFiles'[k] = pgFiles[k])
              /\ DOMAIN pgFiles \subseteq DOMAIN pgFiles'
              /\ db' = db]_vars

C9_Witness ==
    /\ pc = "extract_csv"
    /\ extStage = "table"
    /\ ~ret.pg
    /\ extracted # {}
    /\ \E t \in DOMAIN db : <<t, execution_date>> \notin DOMAIN pgFiles

\* C10: discovery filters nothing.  A successful extraction snapshots every
\* table of the schema, the '<table>_final' tables of earlier reloads
\* included, and the successful reload of an 'all' run loads each of them
\* under its name plus '_final', so that the schema has more tables after
\* the run than before.
C10_ExtractsOwnOutput ==
    [][/\ (pc = "extract_pg" /\ ret'.pg) =>
              \A t \in DOMAIN db :
                  /\ <<t, execution_date>> \in DOMAIN pgFiles'
                  /\ pgFiles'[<<t, execution_date>>] = db[t]
       /\ (step = "all" /\ pc = "load" /\ ret'.load) =>
              /\ \A t \in DOMAIN db : <<t[1], t[2] + 1>> \in DOMAIN db'
              /\ \A t \in Targets :
                     db'[<<t[1], t[2] + 1>>] = pgFiles[<<t, execution_date>>]
              /\ Cardinality(DOMAIN db') > Cardinality(DOMAIN db)]_vars

C10_Witness ==
    /\ step = "all"
    /\ ret.load
    /\ runs = 2
    /\ <<"orders", 2>> \in DOMAIN db
    /\ <<"order_details", 2>> \in DOMAIN db
    /\ <<<<"orders", 1>>, execution_date>> \in DOMAIN pgFiles

====
